---- MODULE Spec2Model ----
(***************************************************************************)
(* The trivia API of backend/flaskr/__init__.py: a table of questions and  *)
(* a table of categories behind six HTTP handlers.  A request is handled   *)
(* atomically (section 5 of the spec: no shared process state, one         *)
(* synchronous store call per request), so there is one action per         *)
(* handler.  The state records the last request and its response so that   *)
(* the contract of each handler is a predicate over states.                *)
(*                                                                         *)
(* Encodings.  Python's None (and an absent JSON key, which dict.get turns *)
(* into None) is the empty tuple None; a present value v is Some(v).       *)
(* Strings that the code inspects character by character (question text,   *)
(* search terms) are sequences of one-character strings.                   *)
(***************************************************************************)
EXTENDS Integers, Sequences, FiniteSets, TLC

VARIABLES
    questions,   \* the Question table: a set of rows
    categories,  \* the Category table: id -> type
    nextId,      \* the id the store assigns to the next inserted question
    request,     \* the last request handled
    response,    \* the response it got
    session,     \* a client-held quiz session (previous_questions, ...)
    pag          \* an application of paginate_questions and what it returned

vars == <<questions, categories, nextId, request, response, session, pag>>

----------------------------------------------------------------------------
(* Bounds of the model and program constants *)

QUESTIONS_PER_PAGE == 10

NumSeed == 11       \* questions in the store when the application starts
MaxCreate == 1      \* how many questions a run inserts
MaxPage == 2        \* the page arguments 1..MaxPage
QuizSeed == 4       \* the quiz-session stores are subsets of rows 1..QuizSeed
MaxSelLen == 21     \* the longest selection handed to paginate_questions
MaxPagPage == 3     \* the last page asked of it

None == <<>>
Some(v) == <<v>>
Value(m) == m[1]

Min(a, b) == IF a <= b THEN a ELSE b
Max(a, b) == IF a >= b THEN a ELSE b
Range(s) == {s[i] : i \in DOMAIN s}

----------------------------------------------------------------------------
(* Python and SQL primitives the handlers use *)

\* s[start:end] of a Python list, negative indexes included
PySlice(s, start, end) ==
    LET n == Len(s)
        lo == IF start < 0 THEN Max(start + n, 0) ELSE Min(start, n)
        hi == IF end < 0 THEN Max(end + n, 0) ELSE Min(end, n)
    IN  IF lo >= hi THEN <<>> ELSE SubSeq(s, lo + 1, hi)

Lower(c) ==
    CASE c = "A" -> "a"
      [] c = "B" -> "b"
      [] c = "C" -> "c"
      [] OTHER -> c

\* text LIKE pattern, case-insensitively: % is any run, _ any one character
RECURSIVE ILike(_, _)
ILike(text, pattern) ==
    IF pattern = <<>> THEN text = <<>>
    ELSE IF Head(pattern) = "%"
         THEN ILike(text, Tail(pattern))
              \/ (text # <<>> /\ ILike(Tail(text), pattern))
    ELSE IF text = <<>> THEN FALSE
    ELSE IF Head(pattern) = "_" THEN ILike(Tail(text), Tail(pattern))
    ELSE Lower(Head(text)) = Lower(Head(pattern))
         /\ ILike(Tail(text), Tail(pattern))

\* int(x) of a JSON string: its value, or None where Python raises ValueError
ParseInt(s) ==
    CASE s = "0" -> Some(0)
      [] s = "1" -> Some(1)
      [] s = "2" -> Some(2)
      [] s = "3" -> Some(3)
      [] OTHER -> None

\* the rows of S in ascending id order: query.order_by(Question.id).all()
RECURSIVE OrderById(_)
OrderById(S) ==
    IF S = {} THEN <<>>
    ELSE LET q == CHOOSE x \in S : \A y \in S : x.id <= y.id
         IN  <<q>> \o OrderById(S \ {q})

Reverse(s) == [i \in 1..Len(s) |-> s[Len(s) + 1 - i]]

\* query.all() without order_by: the store chooses the order of the rows
AllOrders(S) == {OrderById(S), Reverse(OrderById(S))}

\* Question.format(): the row as a JSON object
format(q) ==
    [id |-> q.id, question |-> q.question, answer |-> q.answer,
     category |-> q.category, difficulty |-> q.difficulty]

\* question.insert(): the store assigns the id; a row lacking a column is
\* refused (the spec's data model: text is a non-empty string)
InsertOk(question, answer, category, difficulty) ==
    /\ question # None /\ answer # None /\ category # None /\ difficulty # None
    /\ Value(question) # <<>>

Insert(table, id, question, answer, category, difficulty) ==
    table \cup {[id |-> id, question |-> Value(question), answer |-> Value(answer),
                 category |-> Value(category), difficulty |-> Value(difficulty)]}

\* question.delete()
Delete(table, q) == table \ {q}

\* Question.query.filter(Question.id == id).one_or_none()
OneOrNone(table, id) ==
    IF \E q \in table : q.id = id
    THEN Some(CHOOSE q \in table : q.id = id)
    ELSE None

----------------------------------------------------------------------------
(* Responses *)

\* jsonify(body): status 200 and the object as it was built
jsonify(body) == [status |-> 200, mimetype |-> "application/json", body |-> body]

HttpName(code) ==
    CASE code = 400 -> "Bad Request"
      [] code = 404 -> "Not Found"
      [] code = 422 -> "Unprocessable Entity"
      [] OTHER -> "Internal Server Error"

\* abort(code, description): create_app registers no error handler, so the
\* response is the framework's own HTML error page ("" stands for the
\* framework's default description)
abort(code, description) ==
    [status |-> code, mimetype |-> "text/html",
     body |-> [title |-> HttpName(code), description |-> description]]

NoResponse == [status |-> 0, mimetype |-> "", body |-> [title |-> "", description |-> ""]]

----------------------------------------------------------------------------
(* The helpers of the module *)

\* start computed from the page number itself: the first page is skipped
paginate_questions_from_page(page, selection) ==
    LET start == page * QUESTIONS_PER_PAGE
        end == start + QUESTIONS_PER_PAGE
        formatted == [i \in 1..Len(selection) |-> format(selection[i])]
    IN  PySlice(formatted, start, end)

paginate_questions(page, selection) ==
    LET start == (page - 1) * QUESTIONS_PER_PAGE
        end == start + QUESTIONS_PER_PAGE
        formatted == [i \in 1..Len(selection) |-> format(selection[i])]
    IN  PySlice(formatted, start, end)

get_categories == categories

----------------------------------------------------------------------------
(* The store when the application starts, and the inputs of the requests *)

SeedCategory(id) == IF id <= 3 THEN 1 ELSE 2

SeedText(id) ==
    CASE id = 1 -> <<"A", "b">>
      [] id = 2 -> <<"b">>
      [] OTHER -> <<"c", "a">>

SeedRow(id) ==
    [id |-> id, question |-> SeedText(id), answer |-> "answer",
     category |-> SeedCategory(id), difficulty |-> 1 + (id % 2)]

SeedCategories == (1 :> "Science") @@ (2 :> "Art") @@ (3 :> "Geography")

Pages == 1..MaxPage
AbsentId == NumSeed + MaxCreate + 1
DeleteIds == {1, 2, NumSeed + 1, AbsentId}
CategoryIds == {1, 2, 3, 100}
SearchTerms == {<<"a">>, <<"A", "B">>, <<"_">>, <<"z">>}
NewTexts == {<<"B", "a">>, <<"z">>}

NoFields ==
    [question |-> None, answer |-> None, category |-> None, difficulty |-> None,
     search |-> None]

NewQuestionBodies ==
    {[question |-> Some(t), answer |-> Some("answer"), category |-> Some(c),
      difficulty |-> Some(2), search |-> s] :
        t \in NewTexts, c \in {1}, s \in {None, Some(<<>>)}}

SearchBodies ==
    {[NoFields EXCEPT !.search = Some(t)] : t \in SearchTerms}
    \cup {[question |-> Some(<<"z">>), answer |-> Some("answer"), category |-> Some(1),
           difficulty |-> Some(2), search |-> Some(<<"a">>)]}

CreateBodies == NewQuestionBodies \cup SearchBodies \cup {NoFields}

PreviousLists == {<<>>, <<1>>, <<2, 3>>, <<1, 2, 3>>, <<3, 2, 4>>}
QuizBodies ==
    {[quiz_category |-> c, previous_questions |-> p] :
        c \in {None} \cup {Some([id |-> s]) : s \in {"0", "1", "2", "3", "abc"}},
        p \in {None} \cup {Some(l) : l \in PreviousLists}}

NoBody == [none |-> TRUE]
NoRequest == [op |-> "", id |-> 0, page |-> 1, body |-> NoBody]
NoSession == [category |-> "0", previous_questions |-> <<>>, requests |-> 0, over |-> FALSE]
NoPag == [selection |-> <<>>, page |-> 0, current |-> <<>>, pages |-> <<>>]

----------------------------------------------------------------------------
(* The handlers *)

retrive_categories ==
    /\ request' = [op |-> "retrive_categories", id |-> 0, page |-> 1, body |-> NoBody]
    /\ response' = jsonify([categories |-> get_categories])
    /\ UNCHANGED <<questions, categories, nextId, session, pag>>

retrive_questions(page) ==
    LET selection == OrderById(questions)
        current_questions == paginate_questions(page, selection)
    IN  /\ request' = [op |-> "retrive_questions", id |-> 0, page |-> page, body |-> NoBody]
        /\ response' =
              IF Len(current_questions) = 0
              THEN abort(404, "")
              ELSE jsonify([questions |-> current_questions,
                            totalQuestions |-> Cardinality(questions),
                            categories |-> get_categories])
        /\ UNCHANGED <<questions, categories, nextId, session, pag>>

\* The try block raises in both of its paths out: abort(404) raises an
\* HTTPException that the bare except turns into abort(422); after a delete
\* the view falls off its end and returns None, which the framework answers
\* with its 500 page.
delete_question(question_id) ==
    LET question == OneOrNone(questions, question_id)
    IN  /\ request' = [op |-> "delete_question", id |-> question_id, page |-> 1,
                       body |-> NoBody]
        /\ IF question = None
           THEN /\ response' = abort(422, "")
                /\ questions' = questions
           ELSE /\ questions' = Delete(questions, Value(question))
                /\ response' = abort(500, "")
        /\ UNCHANGED <<categories, nextId, session, pag>>

\* a search is run whenever the key is present, the empty string included
SearchRequestedIfPresent(search) == search # None

\* `if search:` - None and the empty string are falsy
SearchRequested(search) == search # None /\ Value(search) # <<>>

create_question(body, page) ==
    LET new_question == body.question
        new_category == body.category
        new_answer == body.answer
        new_difficulty == body.difficulty
        search == body.search
    IN  /\ request' = [op |-> "create_question", id |-> 0, page |-> page, body |-> body]
        /\ IF SearchRequested(search)
           THEN LET matching == {q \in questions :
                                   ILike(q.question, <<"%">> \o Value(search) \o <<"%">>)}
                    selection == OrderById(matching)
                    current_questions == paginate_questions(page, selection)
                IN  /\ response' = jsonify([categories |-> get_categories,
                                            questions |-> current_questions,
                                            totalQuestions |-> Len(selection)])
                    /\ UNCHANGED <<questions, nextId>>
           ELSE IF InsertOk(new_question, new_answer, new_category, new_difficulty)
           THEN LET inserted == Insert(questions, nextId, new_question, new_answer,
                                       new_category, new_difficulty)
                    selection == OrderById(inserted)
                    current_questions == paginate_questions(page, selection)
                IN  /\ nextId <= NumSeed + MaxCreate
                    /\ questions' = inserted
                    /\ nextId' = nextId + 1
                    /\ response' = jsonify([questions |-> current_questions,
                                            totalQuestions |-> Cardinality(inserted),
                                            categories |-> get_categories])
           ELSE /\ response' = abort(422, "")
                /\ UNCHANGED <<questions, nextId>>
        /\ UNCHANGED <<categories, session, pag>>

get_questions_by_category(category_id, page) ==
    \E selection \in AllOrders({q \in questions : q.category = category_id}) :
        LET current_questions == paginate_questions(page, selection)
        IN  /\ request' = [op |-> "get_questions_by_category", id |-> category_id,
                           page |-> page, body |-> NoBody]
            /\ response' =
                  IF Len(current_questions) = 0
                  THEN abort(404, "")
                  ELSE jsonify([questions |-> current_questions,
                                totalQuestions |-> Cardinality(questions),
                                categories |-> get_categories])
            /\ UNCHANGED <<questions, categories, nextId, session, pag>>

\* Category.query.get(category_id)
CategoryGet(category_id) ==
    IF category_id \in DOMAIN categories THEN Some(category_id) ELSE None

\* the query without its notin_ filter
QuizQuestionsNoExclusion(category, previous_questions) ==
    IF category # None
    THEN {q \in questions : q.category = Value(category)}
    ELSE questions

\* the query with the notin_ filter missing from the all-categories branch
QuizQuestionsAllUnfiltered(category, previous_questions) ==
    IF category # None
    THEN {q \in questions : q.id \notin Range(previous_questions)
                             /\ q.category = Value(category)}
    ELSE questions

\* the query of play_quiz; category is the Category row's id, or None

QuizQuestions(category, previous_questions) ==
    IF category # None
    THEN IF Len(previous_questions) > 0
         THEN {q \in questions : q.id \notin Range(previous_questions)
                                  /\ q.category = Value(category)}
         ELSE {q \in questions : q.category = Value(category)}
    ELSE IF Len(previous_questions) > 0
         THEN {q \in questions : q.id \notin Range(previous_questions)}
         ELSE questions

\* lines 237-241: the random pick, None standing for the JSON false
QuizPick(qs) ==
    LET max == Len(qs) - 1
    IN  IF max > 0
        THEN {Some(format(qs[i + 1])) : i \in 0..max}
        ELSE {None}

\* what the try block raises on: body["quiz_category"], int(...) and
\* body['previous_questions']
QuizRaises(body) ==
    \/ body.quiz_category = None
    \/ ParseInt(Value(body.quiz_category).id) = None
    \/ body.previous_questions = None

play_quiz_responses(body) ==
    IF QuizRaises(body)
    THEN {abort(500, "Error loading question")}
    ELSE LET category_id == Value(ParseInt(Value(body.quiz_category).id))
             category == CategoryGet(category_id)
             previous_questions == Value(body.previous_questions)
         IN  {jsonify([question |-> question]) :
                 question \in UNION {QuizPick(qs) :
                     qs \in AllOrders(QuizQuestions(category, previous_questions))}}

play_quiz(body) ==
    /\ request' = [op |-> "play_quiz", id |-> 0, page |-> 1, body |-> body]
    /\ response' \in play_quiz_responses(body)
    /\ UNCHANGED <<questions, categories, nextId, session, pag>>

----------------------------------------------------------------------------
(* The API under arbitrary requests *)

Init ==
    /\ questions = {SeedRow(id) : id \in 1..NumSeed}
    /\ categories = SeedCategories
    /\ nextId = NumSeed + 1
    /\ request = NoRequest
    /\ response = NoResponse
    /\ session = NoSession
    /\ pag = NoPag

Next ==
    \/ retrive_categories
    \/ \E page \in Pages : retrive_questions(page)
    \/ \E question_id \in DeleteIds : delete_question(question_id)
    \/ \E body \in CreateBodies, page \in Pages : create_question(body, page)
    \/ \E category_id \in CategoryIds, page \in Pages :
          get_questions_by_category(category_id, page)
    \/ \E body \in QuizBodies : play_quiz(body)

Spec == Init /\ [][Next]_vars

----------------------------------------------------------------------------
(* A quiz session: the client of POST /quizzes over an unchanging store.  *)
(* It starts with an empty previous_questions list, adds the id of every  *)
(* question it is served and resubmits the whole list on the next turn.   *)

QuizTurn ==
    LET body == [quiz_category |-> Some([id |-> session.category]),
                 previous_questions |-> Some(session.previous_questions)]
    IN  /\ ~session.over
        /\ request' = [op |-> "play_quiz", id |-> 0, page |-> 1, body |-> body]
        /\ response' \in play_quiz_responses(body)
        /\ session' =
              IF response'.status # 200
              THEN [session EXCEPT !.requests = @ + 1]
              ELSE IF response'.body.question = None
              THEN [session EXCEPT !.requests = @ + 1, !.over = TRUE]
              ELSE [session EXCEPT
                        !.requests = @ + 1,
                        !.previous_questions =
                            Append(@, Value(response'.body.question).id)]
        /\ UNCHANGED <<questions, categories, nextId, pag>>

InitQuiz ==
    /\ questions \in {{SeedRow(id) : id \in S} : S \in SUBSET (1..QuizSeed)}
    /\ categories = SeedCategories
    /\ nextId = QuizSeed + 1
    /\ request = NoRequest
    /\ response = NoResponse
    /\ session \in {[NoSession EXCEPT !.category = c] : c \in {"0", "1", "2", "3"}}
    /\ pag = NoPag

NextQuiz == QuizTurn

\* the client keeps asking until it is told the quiz is over
SpecQuiz == InitQuiz /\ [][NextQuiz]_vars /\ WF_vars(QuizTurn)

----------------------------------------------------------------------------
(* paginate_questions as a function: a selection, asked page after page *)

Selections ==
    UNION {{[i \in 1..n |-> SeedRow(i)],
            [i \in 1..n |-> SeedRow(n + 1 - i)],
            [i \in 1..n |-> SeedRow(1 + ((i * 3) % 5))]} : n \in 0..MaxSelLen}

Paginate ==
    /\ pag.page < MaxPagPage
    /\ LET current == paginate_questions(pag.page + 1, pag.selection)
       IN  pag' = [pag EXCEPT !.page = @ + 1,
                              !.current = current,
                              !.pages = Append(@, current)]
    /\ UNCHANGED <<questions, categories, nextId, request, response, session>>

InitPaginate ==
    /\ questions = {}
    /\ categories = SeedCategories
    /\ nextId = 1
    /\ request = NoRequest
    /\ response = NoResponse
    /\ session = NoSession
    /\ pag \in {[NoPag EXCEPT !.selection = s] : s \in Selections}

NextPaginate == Paginate

SpecPaginate == InitPaginate /\ [][NextPaginate]_vars

----------------------------------------------------------------------------
(* The notions the claims are stated in, defined from the spec's glossary  *)
(* and not from the handlers                                               *)

Ids(table) == {q.id : q \in table}

\* the request is POST /quizzes with a well-formed body
QuizAsked == request.op = "play_quiz" /\ ~QuizRaises(request.body)
AskedCategory == Value(ParseInt(Value(request.body.quiz_category).id))
AskedPrevious == Range(Value(request.body.previous_questions))

\* the rows matching the category filter of a quiz request
Filtered(category_id) ==
    {q \in questions : category_id \in DOMAIN categories => q.category = category_id}

\* eligible question: matches the category filter and is not excluded
Eligible(category_id, excluded) ==
    {q \in Filtered(category_id) : q.id \notin excluded}

\* term is a case-insensitive substring of text
Contains(text, term) ==
    \E i \in 0..(Len(text) - Len(term)) :
        \A j \in 1..Len(term) : Lower(text[i + j]) = Lower(term[j])

\* a body of POST /questions that is a new-question payload
IsNewQuestion(body) ==
    /\ body.question # None /\ body.answer # None
    /\ body.category # None /\ body.difficulty # None
    /\ Value(body.question) # <<>>
    /\ (body.search = None \/ Value(body.search) = <<>>)

IsSearch(body) == body.search # None /\ Value(body.search) # <<>>

IsJsonError(r, message) ==
    /\ r.mimetype = "application/json"
    /\ "success" \in DOMAIN r.body /\ r.body.success = FALSE
    /\ "message" \in DOMAIN r.body /\ r.body.message = message

IsJsonSuccess(r) ==
    /\ r.status = 200
    /\ "success" \in DOMAIN r.body /\ r.body.success = TRUE

----------------------------------------------------------------------------
(* The claims *)

\* C1: a question that POST /quizzes returns is a question of the store whose
\* id is not in previous_questions and, when the category id resolves to a
\* category, whose category is that one.
QuizAnswerIsEligible ==
    (QuizAsked /\ response.status = 200 /\ response.body.question # None) =>
        LET q == Value(response.body.question)
        IN  /\ q.id \notin AskedPrevious
            /\ \E row \in questions : format(row) = q
            /\ AskedCategory \in DOMAIN categories => q.category = AskedCategory

\* C1 witness: a category that resolves, a non-empty exclusion list, and a
\* question served
QuizAnswerServed ==
    /\ QuizAsked /\ response.status = 200 /\ response.body.question # None
    /\ AskedCategory \in DOMAIN categories
    /\ AskedPrevious # {}
    /\ \E q \in questions : q.id \in AskedPrevious /\ q.category = AskedCategory

\* C1 witness of the 'all categories' case
QuizAnswerServedAll ==
    /\ QuizAsked /\ response.status = 200 /\ response.body.question # None
    /\ AskedCategory \notin DOMAIN categories
    /\ AskedPrevious # {}

\* C2: POST /quizzes answers question false exactly when no eligible question
\* remains; a single eligible question is returned.
QuizOverOnlyWhenNoneEligible ==
    (QuizAsked /\ response.status = 200) =>
        (response.body.question = None
            <=> Eligible(AskedCategory, AskedPrevious) = {})

\* C3: DELETE /questions/{id} of a present id answers 200 with success true,
\* removes that question and nothing else.
DeleteExistingSucceeds ==
    [][(request'.op = "delete_question" /\ request'.id \in Ids(questions)) =>
          /\ IsJsonSuccess(response')
          /\ Cardinality(questions') = Cardinality(questions) - 1
          /\ request'.id \notin Ids(questions')]_vars

\* C4: DELETE /questions/{id} of an absent id answers 404, not 422, and leaves
\* the store as it was.
DeleteMissingIsNotFound ==
    [][(request'.op = "delete_question" /\ request'.id \notin Ids(questions)) =>
          /\ response'.status = 404
          /\ questions' = questions]_vars

\* C5: a listing (all questions, or those of a category) whose page is empty
\* answers 404 with success false and the message "Resource Not Found", and
\* never 200.
EmptyPageIsNotFound ==
    LET listed == IF request.op = "retrive_questions"
                  THEN questions
                  ELSE {q \in questions : q.category = request.id}
        empty == (request.page - 1) * QUESTIONS_PER_PAGE >= Cardinality(listed)
    IN  (request.op \in {"retrive_questions", "get_questions_by_category"} /\ empty) =>
            /\ response.status = 404
            /\ IsJsonError(response, "Resource Not Found")

\* C6: POST /quizzes without a quiz_category answers 400 with success false
\* and the message "Bad Request".
QuizMalformedIsBadRequest ==
    (request.op = "play_quiz" /\ request.body.quiz_category = None) =>
        /\ response.status = 400
        /\ IsJsonError(response, "Bad Request")

\* the pages of a listing, one after the other
RECURSIVE Concat(_)
Concat(ss) == IF ss = <<>> THEN <<>> ELSE Head(ss) \o Concat(Tail(ss))

\* C7: every page of paginate_questions has at most 10 items, a page beyond
\* the range is empty, and pages 1..k concatenated are the first
\* min(10k, length) formatted items of the selection in their order.
PaginateContract ==
    LET n == Len(pag.selection)
        k == pag.page
    IN  k >= 1 =>
            /\ Len(pag.current) <= 10
            /\ (k - 1) * 10 >= n => pag.current = <<>>
            /\ Len(pag.pages) = k
            /\ Concat(pag.pages) =
                 [i \in 1..Min(10 * k, n) |-> format(pag.selection[i])]

\* C7 witness: a second page that is neither empty nor full, after a full one
PaginateLastPage ==
    /\ pag.page = 2
    /\ Len(pag.selection) > 10
    /\ Len(pag.current) \in 1..9
    /\ pag.current[1] = format(pag.selection[11])

\* C8: POST /questions with a new-question payload adds exactly one question,
\* under the id the store assigns, and leaves the others as they were.
CreateAddsOne ==
    [][(request'.op = "create_question" /\ IsNewQuestion(request'.body)) =>
          /\ Cardinality(questions') = Cardinality(questions) + 1
          /\ questions \subseteq questions'
          /\ \E q \in questions' \ questions :
                /\ q.id = nextId
                /\ q.id \notin Ids(questions)
                /\ q.question = Value(request'.body.question)
                /\ Cardinality({r \in questions' : r.id = q.id}) = 1]_vars

\* C8 witness: a new-question payload was posted and its row is in the store
CreateHappened ==
    /\ request.op = "create_question" /\ IsNewQuestion(request.body)
    /\ response.status = 200
    /\ \E q \in questions :
          q.id = nextId - 1 /\ q.question = Value(request.body.question)

\* C9: POST /questions with a truthy search term answers 200 with the page, in
\* ascending id order, of exactly the questions whose text contains the term
\* as a case-insensitive substring, and their number as totalQuestions.
SearchIsSubstringMatch ==
    (request.op = "create_question" /\ IsSearch(request.body)) =>
        LET term == Value(request.body.search)
            matches == {q \in questions : Contains(q.question, term)}
        IN  /\ response.status = 200
            /\ response.body.questions =
                 paginate_questions(request.page, OrderById(matches))
            /\ Len(response.body.questions) <= 10
            /\ response.body.totalQuestions = Cardinality(matches)

\* C10: a quiz session over an unchanging store is told the quiz is over
\* after at most N+1 requests, N the number of questions matching its
\* category filter.
QuizSessionBound ==
    LET N == Cardinality(Filtered(Value(ParseInt(session.category))))
    IN  /\ session.requests <= N + 1
        /\ session.requests = N + 1 => session.over
        /\ Len(session.previous_questions) <= N

QuizSessionEnds == []QuizSessionBound /\ <>session.over

\* C10 witness: a session that was served questions and then told it is over
QuizSessionEnded ==
    /\ session.over
    /\ session.requests >= 2
    /\ Len(session.previous_questions) >= 1

====
